---- MODULE Spec2Model ----
(***************************************************************************)
(* Model of FineTuneLLms/FineTuneLLM-StrictBot/generate_data.py: the       *)
(* module-level API setup, generate_batch (the retry loop around one       *)
(* chat-completion request) and main (the accumulator loop, the            *)
(* MIN_RECORDS gate and the two output files).                             *)
(*                                                                         *)
(* JSON values are tagged records: [t |-> "null"], [t |-> "num", v |-> n], *)
(* [t |-> "str", v |-> text], [t |-> "obj", v |-> record of members],     *)
(* [t |-> "arr", v |-> sequence of values].  Python's None is the value    *)
(* json.loads gives for null.  A text is a tuple; the empty text is <<>>.  *)
(* A response body is a sequence of lexical tokens.                        *)
(***************************************************************************)
EXTENDS Integers, Sequences, FiniteSets, TLC

\* ------------------------------------------------------------------ bounds
MaxBatchSize == 5
MaxTarget == 10
MaxIterations == 2
MaxRetriesBound == 3

\* ------------------------------------------------------- program constants
DEFAULT_MAX_RETRIES == 3
SOURCE_MIN_RECORDS == 3000
RETRY_SLEEP == 5
RPM_LIMIT == 5
REQUEST_TIMEOUT == 120
WINDOW == 60

categories == <<"Good Question", "Factual Error", "Poor Logic", "Trivial / Low-IQ">>

None == [t |-> "null"]
JNum(n) == [t |-> "num", v |-> n]
JStr(s) == [t |-> "str", v |-> s]
JObj(o) == [t |-> "obj", v |-> o]
JArr(a) == [t |-> "arr", v |-> a]

\* ------------------------------------------------ response text and parsing
TICKS == [k |-> "ticks"]
WORD_JSON == [k |-> "word_json"]
WS == [k |-> "ws"]
PROSE == [k |-> "prose"]
VALUE(v) == [k |-> "value", v |-> v]

RECURSIVE StripLeft(_)
StripLeft(s) ==
    IF s # <<>> /\ Head(s).k = "ws" THEN StripLeft(Tail(s)) ELSE s

RECURSIVE StripRight(_)
StripRight(s) ==
    IF s # <<>> /\ s[Len(s)].k = "ws" THEN StripRight(SubSeq(s, 1, Len(s) - 1)) ELSE s

\* str.strip()
Strip(s) == StripRight(StripLeft(s))

\* str.replace("```json", "")
RECURSIVE ReplaceFenceJson(_)
ReplaceFenceJson(s) ==
    IF s = <<>> THEN <<>>
    ELSE IF Len(s) >= 2 /\ s[1].k = "ticks" /\ s[2].k = "word_json"
         THEN ReplaceFenceJson(SubSeq(s, 3, Len(s)))
         ELSE <<Head(s)>> \o ReplaceFenceJson(Tail(s))

\* str.replace("```", "")
ReplaceFence(s) == SelectSeq(s, LAMBDA tok : tok.k # "ticks")

\* generated_content.replace("```json", "").replace("```", "").strip()
CleanFences(content) == Strip(ReplaceFence(ReplaceFenceJson(content)))

\* json.loads: whitespace around the single top-level value is skipped;
\* anything else (no value, prose, a second value) raises JSONDecodeError.
JsonBody(s) == SelectSeq(s, LAMBDA tok : tok.k # "ws")
JsonLoadsOk(s) == Len(JsonBody(s)) = 1 /\ JsonBody(s)[1].k = "value"
JsonLoads(s) == JsonBody(s)[1].v

\* ------------------------------------------------------------ the endpoint
Text(field, it, idx) == <<field, it, idx>>

WellFormed(it, idx) ==
    [category |-> <<categories[((idx - 1) % 4) + 1]>>,
     prompt   |-> Text("prompt", it, idx),
     chosen   |-> Text("chosen", it, idx),
     rejected |-> Text("rejected", it, idx)]

NoChosen(it, idx) ==
    [category |-> <<categories[((idx - 1) % 4) + 1]>>,
     prompt   |-> Text("prompt", it, idx),
     rejected |-> Text("rejected", it, idx)]

EmptyPrompt(it, idx) ==
    [category |-> <<categories[((idx - 1) % 4) + 1]>>,
     prompt   |-> <<>>,
     chosen   |-> Text("chosen", it, idx),
     rejected |-> Text("rejected", it, idx)]

FullBatch(it, size) == JArr([idx \in 1..size |-> JObj(WellFormed(it, idx))])

\* What one call of client.chat.completions.create can do: raise, or return
\* a completion whose message content is None or a body of tokens.
Raised(e) == [r |-> "raise", exc |-> e]
NoContent == [r |-> "none"]
Body(s) == [r |-> "text", content |-> s]

Completions(it, size) ==
    { Raised("APITimeoutError"),
      NoContent,
      Body(<<>>),
      Body(<<PROSE, WS, VALUE(FullBatch(it, size))>>),
      Body(<<VALUE(FullBatch(it, size))>>),
      Body(<<WS, TICKS, WORD_JSON, WS, VALUE(FullBatch(it, size)), WS, TICKS, WS>>),
      Body(<<VALUE(FullBatch(it, 1))>>),
      Body(<<VALUE(JArr(<<>>))>>),
      Body(<<VALUE(JArr(<<JObj(WellFormed(it, 1)), JObj(NoChosen(it, 2))>>))>>),
      Body(<<VALUE(JArr(<<JObj(EmptyPrompt(it, 1))>>))>>),
      Body(<<VALUE(JArr(<<JNum(7)>>))>>),
      Body(<<VALUE(JObj([error |-> <<"rate limited">>]))>>),
      Body(<<VALUE(JNum(7))>>),
      Body(<<VALUE(JStr(<<"sorry">>))>>),
      Body(<<VALUE(None)>>) }


\* ------------------------------------------------------------------- state
VARIABLES
    has_key,                  \* 'DEEPSEEK_API_KEY' in os.environ
    NUM_RECORDS_TO_GENERATE, BATCH_SIZE, MIN_RECORDS,   \* configuration of the run
    pc,                       \* position of the interpreter
    all_records, total_iterations, i, focus,
    successful_batches, failed_batches,
    batch,                    \* value generate_batch returned
    max_retries, prompt, attempt,                       \* locals of generate_batch
    log,                      \* outcomes of the client calls of the current generate_batch call
    retry_sleeps,             \* time.sleep(5) calls of the current generate_batch call
    rate_sleeps,              \* time.sleep(delay_between_requests) calls
    iters,                    \* executions of the loop body
    contributed,              \* the batches merged, each with its iteration number, in merge order
    served,                   \* "none": no request yet; "full": every request so far was
                              \* answered with BATCH_SIZE well-formed records; else "mixed"
    answer,                   \* what input() gave at the MIN_RECORDS gate
    rm_written, rm_file, sft_written, sft_file,
    summary,                  \* the figures printed by the batch summary, lines 152-156
    last_wait,                \* the most recent time.sleep call: which one and how long
    in_flight,                \* a chat-completion request has been sent and not yet answered
    stopwatch,                \* whether request times are being measured in this run
    ages                      \* with the stopwatch on: time since each request sent less than
                              \* WINDOW time units ago, oldest first

config == <<has_key, NUM_RECORDS_TO_GENERATE, BATCH_SIZE, MIN_RECORDS>>
gbvars == <<max_retries, prompt, attempt, log, retry_sleeps>>
loopvars == <<all_records, total_iterations, i, focus, successful_batches, failed_batches,
              rate_sleeps, iters, contributed>>
filevars == <<rm_written, rm_file, sft_written, sft_file>>
timevars == <<last_wait, in_flight, stopwatch, ages>>
vars == <<config, pc, loopvars, batch, gbvars, served, answer, filevars, summary, timevars>>

Terminal == {"exited", "aborted", "crashed", "success", "interrupted"}

\* ------------------------------------------------------------ generate_batch
\* for attempt in range(max_retries)
RangeHas_offbyone(a, n) == a <= n
RangeHas(a, n) == a < n

\* except Exception as e
Caught_transport_only(e) == e = "APITimeoutError"
Caught(e) == TRUE

\* if attempt < max_retries - 1: time.sleep(5)
SleepsBeforeRetry_always(a, n) == a < n
SleepsBeforeRetry(a, n) == a < n - 1

\* delay_between_requests = 60.0 / RPM_LIMIT  (60.0 / 5 is exactly 12.0)
DelayBetweenRequests_inverse(rpm) == rpm \div 60
DelayBetweenRequests(rpm) == 60 \div rpm

NoWait == [kind |-> "none", d |-> 0]
RetryWait == [kind |-> "retry", d |-> RETRY_SLEEP]
RateWait == [kind |-> "rate", d |-> DelayBetweenRequests(RPM_LIMIT)]

\* how long a request can take: it is answered or fails at once, or it runs
\* into timeout=120
RequestTimes == {0, REQUEST_TIMEOUT}

\* the stopwatch after d more time units
Elapse(as, d) ==
    IF stopwatch
    THEN SelectSeq([n \in DOMAIN as |-> as[n] + d], LAMBDA a : a < WINDOW)
    ELSE as

\* the try block, lines 89-104, applied to one completion
Returned(v) == [ok |-> TRUE, val |-> v]
Threw(e) == [ok |-> FALSE, exc |-> e]

TryBody(c) ==
    IF c.r = "raise" THEN Threw(c.exc)
    ELSE IF c.r = "none" THEN Threw("AttributeError")
    ELSE LET json_response == CleanFences(Strip(c.content))
         IN  IF JsonLoadsOk(json_response)
             THEN Returned(JsonLoads(json_response))
             ELSE Threw("JSONDecodeError")

\* bookkeeping of what the endpoint has answered so far
Serve(c) ==
    IF served # "mixed" /\ c.r = "text" /\ c.content # <<>>
       /\ \A n \in 1..Len(c.content) :
             c.content[n].k \in {"value", "prose"}
                => c.content[n] = VALUE(FullBatch(i + 1, BATCH_SIZE))
    THEN "full" ELSE "mixed"

\* no call of generate_batch is active: its locals do not exist
NoFrame ==
    /\ max_retries = DEFAULT_MAX_RETRIES
    /\ prompt = [batch_size |-> BATCH_SIZE, focus_category |-> categories[1]]
    /\ attempt = 0 /\ log = <<>> /\ retry_sleeps = 0

PopFrame ==
    /\ max_retries' = DEFAULT_MAX_RETRIES
    /\ prompt' = [batch_size |-> BATCH_SIZE, focus_category |-> categories[1]]
    /\ attempt' = 0 /\ log' = <<>> /\ retry_sleeps' = 0

Call(fc, mr) ==
    /\ max_retries' = mr
    /\ prompt' = [batch_size |-> BATCH_SIZE, focus_category |-> fc]
    /\ attempt' = 0
    /\ log' = <<>>
    /\ retry_sleeps' = 0

\* lines 85-97: the next attempt sends its request
GBSend ==
    /\ pc = "gb_for"
    /\ RangeHas(attempt, max_retries)
    /\ in_flight' = TRUE
    /\ ages' = IF stopwatch THEN Append(ages, 0) ELSE ages
    /\ pc' = "gb_wait"
    /\ UNCHANGED <<config, loopvars, batch, gbvars, served, answer, filevars, summary,
                   last_wait, stopwatch>>

\* lines 89-104: the request is answered and the answer parses
GBReturns ==
    /\ pc = "gb_wait"
    /\ \E c \in Completions(i + 1, prompt.batch_size) :
          /\ TryBody(c).ok
          /\ log' = Append(log, [focus |-> prompt.focus_category, out |-> TryBody(c)])
          /\ served' = Serve(c)
          /\ batch' = TryBody(c).val
    /\ \E d \in RequestTimes : ages' = Elapse(ages, d)
    /\ in_flight' = FALSE
    /\ pc' = "gb_done"
    /\ UNCHANGED <<config, loopvars, max_retries, prompt, attempt, retry_sleeps, answer,
                   filevars, summary, last_wait, stopwatch>>

\* lines 89-110: the request fails or its answer does not parse
GBRaises ==
    /\ pc = "gb_wait"
    /\ in_flight' = FALSE
    /\ \E c \in Completions(i + 1, prompt.batch_size), d \in RequestTimes :
          /\ ~TryBody(c).ok
          /\ log' = Append(log, [focus |-> prompt.focus_category, out |-> TryBody(c)])
          /\ served' = Serve(c)
          /\ IF Caught(TryBody(c).exc)
             THEN /\ IF SleepsBeforeRetry(attempt, max_retries)
                     THEN /\ retry_sleeps' = retry_sleeps + 1
                          /\ last_wait' = RetryWait
                          /\ ages' = Elapse(Elapse(ages, d), RETRY_SLEEP)
                     ELSE /\ ages' = Elapse(ages, d)
                          /\ UNCHANGED <<retry_sleeps, last_wait>>
                  /\ attempt' = attempt + 1
                  /\ pc' = "gb_for"
             ELSE /\ pc' = "crashed"
                  /\ ages' = Elapse(ages, d)
                  /\ UNCHANGED <<retry_sleeps, attempt, last_wait>>
    /\ UNCHANGED <<config, loopvars, batch, max_retries, prompt, answer, filevars, summary,
                   stopwatch>>

GBExhausted ==
    /\ pc = "gb_for"
    /\ ~RangeHas(attempt, max_retries)
    /\ batch' = None
    /\ pc' = "gb_done"
    /\ UNCHANGED <<config, loopvars, gbvars, served, answer, filevars, summary, timevars>>


\* --------------------------------------------------------------------- main
\* total_iterations = NUM_RECORDS_TO_GENERATE // BATCH_SIZE
TotalIterations_ceiling(n, b) == (n + b - 1) \div b
TotalIterations(n, b) == n \div b

\* Python truth value of a parsed JSON value
Truthy(v) ==
    CASE v.t = "null" -> FALSE
      [] v.t = "num"  -> v.v # 0
      [] v.t = "str"  -> v.v # <<>>
      [] v.t = "obj"  -> DOMAIN v.v # {}
      [] v.t = "arr"  -> v.v # <<>>

\* batch and isinstance(batch, list) and len(batch) > 0
Accepts_any_list(b) == b.t = "arr"
Accepts(b) == Truthy(b) /\ b.t = "arr" /\ Len(b.v) > 0

\* all_records.extend(batch)
Extend_prepend(records, b) == b \o records
Extend_append_first(records, b) == Append(records, b[1])
Extend(records, b) == records \o b

\* response = input(...).lower().strip()
Lower(s) == [j \in DOMAIN s |-> CASE s[j] = "Y" -> "y"
                                  [] s[j] = "N" -> "n"
                                  [] OTHER -> s[j]]

RECURSIVE StripBlanks(_)
StripBlanks(s) ==
    IF s # <<>> /\ Head(s) = " " THEN StripBlanks(Tail(s))
    ELSE IF s # <<>> /\ s[Len(s)] = " " THEN StripBlanks(SubSeq(s, 1, Len(s) - 1))
    ELSE s

\* if response != 'y'
Declines_unless_n(response) == response = <<"n">>
Declines(response) == response # <<"y">>

\* item["prompt"], item["chosen"] succeed (neither KeyError nor TypeError)
Projectable(item) == item.t = "obj" /\ {"prompt", "chosen"} \subseteq DOMAIN item.v

\* json.dump(all_records, f) and the subscripts item["prompt"], item["chosen"]
\* read an element of the corpus and leave it as it is
ItemAfterRead_pop(item) ==
    IF item.t = "obj"
    THEN JObj([f \in DOMAIN item.v \ {"chosen"} |-> item.v[f]])
    ELSE item
ItemAfterRead(item) == item

\* {"prompt": item["prompt"], "response": item["chosen"]}
SftItem_rejected(item) == [prompt |-> item.v.prompt, response |-> item.v.rejected]
SftItem(item) == [prompt |-> item.v.prompt, response |-> item.v.chosen]

NoSummary == [iterations |-> 0, successful |-> 0, failed |-> 0, total_records |-> -1]

EOF == [r |-> "eof"]
Line(s) == [r |-> "line", s |-> s]
NotAsked == [r |-> "unasked"]
Stdin == { EOF, Line(<<"y">>), Line(<<"Y">>), Line(<<" ", "y", " ">>), Line(<<>>),
           Line(<<"n">>), Line(<<"N">>), Line(<<"y", "e", "s">>), Line(<<" ">>) }

\* try: os.environ['DEEPSEEK_API_KEY'] / except KeyError: ... exit()
AfterSetup_no_exit(key) == "main"
AfterSetup(key) == IF key THEN "main" ELSE "exited"

\* lines 21-26
ApiSetup ==
    /\ pc = "api_setup"
    /\ pc' = AfterSetup(has_key)
    /\ UNCHANGED <<config, loopvars, batch, gbvars, served, answer, filevars, summary, timevars>>

\* lines 117-134
MainStart ==
    /\ pc = "main"
    /\ all_records' = <<>>
    /\ total_iterations' = TotalIterations(NUM_RECORDS_TO_GENERATE, BATCH_SIZE)
    /\ successful_batches' = 0
    /\ failed_batches' = 0
    /\ i' = 0
    /\ pc' = "for_i"
    /\ UNCHANGED <<config, focus, rate_sleeps, iters, contributed, batch, gbvars, served, answer, filevars, summary, timevars>>

\* lines 136-140: next element of range(total_iterations), focus, call
LoopBody ==
    /\ pc = "for_i"
    /\ i < total_iterations
    /\ \E c \in 1..Len(categories) :
          /\ focus' = categories[c]
          /\ Call(categories[c], DEFAULT_MAX_RETRIES)
    /\ iters' = iters + 1
    /\ pc' = "gb_for"
    /\ UNCHANGED <<config, all_records, total_iterations, i, successful_batches, failed_batches,
                   rate_sleeps, contributed, batch, served, answer, filevars, summary, timevars>>

\* lines 142-147; the frame of generate_batch is gone after its return
Merge ==
    /\ pc = "gb_done"
    /\ IF Accepts(batch)
       THEN /\ all_records' = Extend(all_records, batch.v)
            /\ successful_batches' = successful_batches + 1
            /\ contributed' = Append(contributed, [it |-> i + 1, recs |-> batch.v])
            /\ UNCHANGED failed_batches
       ELSE /\ failed_batches' = failed_batches + 1
            /\ UNCHANGED <<all_records, successful_batches, contributed>>
    /\ pc' = "rate_sleep"
    /\ UNCHANGED <<config, total_iterations, i, focus, rate_sleeps, iters, batch,
                   served, answer, filevars, summary, timevars>>
    /\ PopFrame

\* lines 149-150, then back to the head of the loop
RateLimit ==
    /\ pc = "rate_sleep"
    /\ rate_sleeps' = rate_sleeps + 1
    /\ last_wait' = RateWait
    /\ ages' = Elapse(ages, RateWait.d)
    /\ i' = i + 1
    /\ pc' = "for_i"
    /\ UNCHANGED <<config, all_records, total_iterations, focus, successful_batches,
                   failed_batches, iters, contributed, batch, gbvars, served, answer, filevars,
                   summary, in_flight, stopwatch>>

\* range exhausted; lines 152-161
Summary ==
    /\ pc = "for_i"
    /\ ~(i < total_iterations)
    /\ summary' = [iterations |-> total_iterations,
                    successful |-> successful_batches,
                    failed |-> failed_batches,
                    total_records |-> Len(all_records)]
    /\ pc' = IF Len(all_records) < MIN_RECORDS THEN "confirm" ELSE "save_rm"
    /\ UNCHANGED <<config, loopvars, batch, gbvars, served, answer, filevars, timevars>>

\* lines 162-171
Confirm ==
    /\ pc = "confirm"
    /\ \E a \in Stdin :
          /\ answer' = a
          /\ pc' = IF a = EOF THEN "crashed"
                   ELSE IF Declines(StripBlanks(Lower(a.s))) THEN "aborted"
                   ELSE "save_rm"
    /\ UNCHANGED <<config, loopvars, batch, gbvars, served, filevars, summary, timevars>>

\* lines 176-177
SaveRM ==
    /\ pc = "save_rm"
    /\ rm_written' = TRUE
    /\ rm_file' = all_records
    /\ pc' = "save_sft"
    /\ UNCHANGED <<config, loopvars, batch, gbvars, served, answer, sft_written, sft_file, summary, timevars>>

\* lines 180-182
SaveSFT ==
    /\ pc = "save_sft"
    /\ IF \A k \in 1..Len(all_records) : Projectable(all_records[k])
       THEN /\ sft_file' = [k \in 1..Len(all_records) |-> SftItem(all_records[k])]
            /\ all_records' = [k \in 1..Len(all_records) |-> ItemAfterRead(all_records[k])]
            /\ sft_written' = TRUE
            /\ pc' = "success"
       ELSE /\ pc' = "crashed"
            /\ UNCHANGED <<all_records, sft_written, sft_file>>
    /\ UNCHANGED <<config, total_iterations, i, focus, successful_batches, failed_batches,
                   rate_sleeps, iters, contributed, batch, gbvars, served, answer,
                   rm_written, rm_file, summary, timevars>>

\* Ctrl-C: no handler is installed and `except Exception` does not catch
\* KeyboardInterrupt, so the interpreter unwinds from wherever it is, also
\* from inside client.chat.completions.create, and the process ends.
Interruptible_at_boundary(p) == p = "for_i"
Interruptible(p) == p \notin Terminal

Interrupt ==
    /\ Interruptible(pc)
    /\ pc' = "interrupted"
    /\ UNCHANGED <<config, loopvars, batch, gbvars, served, answer, filevars, summary, timevars>>

\* ----------------------------------------------------------- specifications
Configs ==
    { c \in [target : 0..MaxTarget, size : 1..MaxBatchSize,
             floor : {SOURCE_MIN_RECORDS, MaxBatchSize}] :
        c.target \div c.size <= MaxIterations }

Rest ==
    /\ all_records = <<>> /\ total_iterations = 0 /\ i = 0 /\ focus = categories[1]
    /\ successful_batches = 0 /\ failed_batches = 0
    /\ batch = None
    /\ rate_sleeps = 0 /\ iters = 0 /\ contributed = <<>> /\ served = "none"
    /\ answer = NotAsked
    /\ rm_written = FALSE /\ rm_file = <<>> /\ sft_written = FALSE /\ sft_file = <<>>
    /\ summary = NoSummary
    /\ last_wait = NoWait /\ in_flight = FALSE /\ ages = <<>>

Start(cs) ==
    /\ has_key \in BOOLEAN
    /\ \E c \in cs :
          /\ NUM_RECORDS_TO_GENERATE = c.target
          /\ BATCH_SIZE = c.size
          /\ MIN_RECORDS = c.floor
    /\ pc = "api_setup"
    /\ NoFrame
    /\ Rest

Init == Start(Configs) /\ stopwatch = FALSE

Next ==
    \/ ApiSetup \/ MainStart \/ LoopBody
    \/ GBSend \/ GBReturns \/ GBRaises \/ GBExhausted
    \/ Merge \/ RateLimit \/ Summary \/ Confirm \/ SaveRM \/ SaveSFT

Spec == Init /\ [][Next]_vars

\* The interpreter keeps taking its next step: a request returns or raises
\* within its timeout, sleeps end, input() returns or raises.  Progress is
\* explored for batches of two records and the MIN_RECORDS of the source.
LiveConfigs ==
    { c \in Configs : c.size = 2 /\ c.target % 2 = 0 /\ c.floor = SOURCE_MIN_RECORDS }

InitLive == Start(LiveConfigs) /\ stopwatch = FALSE

FairSpec == InitLive /\ [][Next]_vars /\ WF_vars(Next)

\* The same runs with the stopwatch on
InitTimed == Start(LiveConfigs) /\ stopwatch = TRUE

SpecTimed == InitTimed /\ [][Next]_vars

\* The same runs with a user who may press Ctrl-C at any moment
NextInterruptible == Next \/ Interrupt

SpecInterrupt == InitLive /\ [][NextInterruptible]_vars

\* generate_batch(focus_category, max_retries) called on its own
InitRetry ==
    /\ has_key = TRUE
    /\ NUM_RECORDS_TO_GENERATE = 0
    /\ BATCH_SIZE \in 1..MaxBatchSize
    /\ MIN_RECORDS = SOURCE_MIN_RECORDS
    /\ pc = "gb_for"
    /\ max_retries \in 1..MaxRetriesBound
    /\ \E c \in 1..Len(categories) :
          prompt = [batch_size |-> BATCH_SIZE, focus_category |-> categories[c]]
    /\ attempt = 0 /\ log = <<>> /\ retry_sleeps = 0
    /\ Rest
    /\ stopwatch = FALSE

NextRetry == GBSend \/ GBReturns \/ GBRaises \/ GBExhausted

SpecRetry == InitRetry /\ [][NextRetry]_vars


\* ------------------------------------------------------------------- claims
Failures(l) == {n \in 1..Len(l) : ~l[n].out.ok}
Successes(l) == {n \in 1..Len(l) : l[n].out.ok}

\* C1: when generate_batch has returned, either the client calls it made
\* were k raising attempts (k < max_retries) followed by one attempt that
\* parsed, and it returned that parsed value after exactly k + 1 calls, or
\* every attempt raised, and it returned None after exactly max_retries calls.
C1_RetryContract ==
    pc = "gb_done" =>
        IF Successes(log) # {}
        THEN /\ Successes(log) = {Len(log)}
             /\ Cardinality(Failures(log)) < max_retries
             /\ Len(log) = Cardinality(Failures(log)) + 1
             /\ batch = log[Len(log)].out.val
        ELSE /\ batch = None
             /\ Len(log) = max_retries

C1_Witness ==
    /\ pc = "gb_done"
    /\ max_retries = 3
    /\ Failures(log) = {1, 2}
    /\ Successes(log) = {3}
    /\ batch.t = "arr"
    /\ Len(batch.v) = BATCH_SIZE

\* a Record of the data model: an object with the four fields non-empty
FourFields(item) ==
    /\ item.t = "obj"
    /\ \A f \in {"category", "prompt", "chosen", "rejected"} :
          f \in DOMAIN item.v /\ item.v[f] # <<>>

\* C2: every element of the corpus is an object with the four fields
\* category, prompt, chosen and rejected present and non-empty.
C2_CorpusRecordsValid == \A k \in 1..Len(all_records) : FourFields(all_records[k])

\* C3: once the confirmation at the MIN_RECORDS gate has been answered with
\* anything but y or Y (blanks around it aside), or not answered at all (end
\* of input), the run has stopped and neither output file has been written.
C3_ShortfallGate ==
    (answer \notin {NotAsked, Line(<<"y">>), Line(<<"Y">>), Line(<<" ", "y", " ">>)}) =>
        /\ Len(all_records) < MIN_RECORDS
        /\ pc \in {"aborted", "crashed"}
        /\ ~rm_written
        /\ ~sft_written

C3_Witness ==
    /\ pc = "aborted"
    /\ answer = Line(<<>>)
    /\ Len(all_records) > 0
    /\ Len(all_records) < MIN_RECORDS
    /\ ~rm_written /\ ~sft_written


\* The run of C4: BATCH_SIZE 5, NUM_RECORDS_TO_GENERATE 10, every request
\* answered with 5 well-formed records, and the process has ended.
C4_Scenario ==
    /\ BATCH_SIZE = 5
    /\ NUM_RECORDS_TO_GENERATE = 10
    /\ served = "full"
    /\ pc \in Terminal

C4_Statistics ==
    /\ iters = 2
    /\ successful_batches = 2
    /\ failed_batches = 0
    /\ Len(all_records) = 10

C4_BothViews ==
    /\ rm_written /\ Len(rm_file) = 10
    /\ sft_written /\ Len(sft_file) = 10

\* C4 as stated: the run of the scenario ends with two successful
\* iterations, a corpus of 10 records, statistics 2 / 0 / 10 and both
\* output views produced with 10 elements each.
C4_EndToEnd_Original == C4_Scenario => (C4_Statistics /\ C4_BothViews)

\* C4 as amended: the run of the scenario ends with two successful
\* iterations, a corpus of 10 records and statistics 2 / 0 / 10; both views
\* are produced with 10 elements each when MIN_RECORDS is at most 10 or the
\* confirmation is answered y or Y (blanks aside), and otherwise no output
\* file is written.
C4_EndToEnd ==
    C4_Scenario =>
        /\ C4_Statistics
        /\ IF MIN_RECORDS <= 10
              \/ answer \in {Line(<<"y">>), Line(<<"Y">>), Line(<<" ", "y", " ">>)}
           THEN C4_BothViews
           ELSE ~rm_written /\ ~sft_written

C4_Witness ==
    /\ C4_Scenario
    /\ MIN_RECORDS = SOURCE_MIN_RECORDS
    /\ answer = Line(<<"Y">>)
    /\ pc = "success"
    /\ C4_BothViews

\* C5: once the SFT view has been derived it has as many elements as the
\* corpus and its k-th element is {prompt: Corpus[k].prompt, response:
\* Corpus[k].chosen}; the RM view written is the corpus itself, in order; and
\* on a corpus whose elements all are objects with the four fields the
\* projection does not fail.
C5_Projection ==
    /\ sft_written =>
          /\ Len(sft_file) = Len(all_records)
          /\ \A k \in 1..Len(all_records) :
                /\ DOMAIN sft_file[k] = {"prompt", "response"}
                /\ sft_file[k].prompt = all_records[k].v.prompt
                /\ sft_file[k].response = all_records[k].v.chosen
    /\ rm_written => rm_file = all_records
    /\ (rm_written /\ pc \in Terminal /\ \A k \in 1..Len(all_records) : FourFields(all_records[k]))
          => sft_written

C5_Witness ==
    /\ pc = "success"
    /\ sft_written /\ rm_written
    /\ Len(all_records) = 3
    /\ Len(contributed) = 2
    /\ sft_file[3].response = all_records[3].v.chosen
    /\ all_records[3].v.chosen # all_records[3].v.rejected

\* C6: the loop body never runs more than floor(NUM_RECORDS_TO_GENERATE /
\* BATCH_SIZE) times, and once the loop has ended it has run exactly that
\* many times, whatever the outcome of each iteration.
C6_IterationCount ==
    /\ iters * BATCH_SIZE <= NUM_RECORDS_TO_GENERATE
    /\ pc \in {"confirm", "save_rm", "save_sft", "aborted", "crashed", "success"} =>
          NUM_RECORDS_TO_GENERATE < (iters + 1) * BATCH_SIZE

C6_Witness ==
    /\ pc = "confirm"
    /\ iters = 2
    /\ NUM_RECORDS_TO_GENERATE = 5
    /\ BATCH_SIZE = 2
    /\ successful_batches = 1
    /\ failed_batches = 1

RECURSIVE Flatten(_)
Flatten(bs) == IF bs = <<>> THEN <<>> ELSE Head(bs).recs \o Flatten(Tail(bs))

\* C7: the corpus is the concatenation, in iteration order, of the batches
\* merged so far, each batch in the order it had when it was returned.
C7_CorpusOrder ==
    /\ all_records = Flatten(contributed)
    /\ \A a, b \in 1..Len(contributed) : a < b => contributed[a].it < contributed[b].it

C7_Witness ==
    /\ Len(contributed) = 2
    /\ Len(contributed[1].recs) = 2
    /\ Len(contributed[2].recs) = 2
    /\ all_records[1] # all_records[3]
    /\ all_records[1] # all_records[2]


\* C8: when the process has ended, either both output files have been
\* written or neither has.
C8_OutputAtomicity == pc \in Terminal => (rm_written <=> sft_written)

LoopEnded == pc \in {"confirm", "save_rm", "save_sft", "aborted", "crashed", "success"}

\* C9: the process never stops inside the loop; an iteration whose
\* max_retries attempts all raised adds exactly one to failed_batches, leaves
\* the corpus and successful_batches alone and goes on to the rate-limit wait;
\* and a run that has entered main always gets through all of its iterations
\* to the summary.
C9_FailuresAbsorbed ==
    /\ [](pc \in Terminal \ {"exited"} => (LoopEnded /\ i = total_iterations /\ iters = i))
    /\ [][(pc = "gb_done" /\ Successes(log) = {} /\ Len(log) = max_retries) =>
             /\ failed_batches' = failed_batches + 1
             /\ successful_batches' = successful_batches
             /\ all_records' = all_records
             /\ pc' = "rate_sleep"]_vars
    /\ (pc = "main" ~> LoopEnded)

C9_Witness ==
    /\ pc = "gb_done"
    /\ i = 1
    /\ failed_batches = 1
    /\ Len(log) = max_retries
    /\ Successes(log) = {}
    /\ batch = None

\* C10: generate_batch never hands a parsed value that is not an array to the
\* accumulator while attempts remain: what it returns is an array, or None
\* once all max_retries attempts have been made.
C10_NonArrayRetried ==
    pc = "gb_done" =>
        \/ batch.t = "arr"
        \/ batch = None /\ Len(log) = max_retries


C11_Appended ==
    /\ all_records' = all_records \o batch.v
    /\ successful_batches' = successful_batches + 1
    /\ failed_batches' = failed_batches

C11_CountedFailed ==
    /\ all_records' = all_records
    /\ successful_batches' = successful_batches
    /\ failed_batches' = failed_batches + 1

\* C11 as stated: whenever generate_batch has returned an array, a short or
\* an empty one included, the next step appends all of its elements and adds
\* one to successful_batches; failed_batches changes only when it returned None.
C11_MergeAnyBatch_Original ==
    [][/\ (pc = "gb_done" /\ pc' # "gb_done" /\ batch.t = "arr") => C11_Appended
       /\ failed_batches' # failed_batches => batch = None]_vars

\* C11 as amended: whenever generate_batch has returned a non-empty array, a
\* short one included, the next step appends all of its elements and adds one
\* to successful_batches; whenever it has returned None, an empty array or a
\* value that is not an array, the next step adds one to failed_batches and
\* leaves the corpus and successful_batches alone; failed_batches changes in
\* no other step.
C11_MergeAnyBatch ==
    [][/\ (pc = "gb_done" /\ pc' # "gb_done") =>
             IF batch.t = "arr" /\ batch.v # <<>> THEN C11_Appended ELSE C11_CountedFailed
       /\ failed_batches' # failed_batches => pc = "gb_done"]_vars

C11_Witness ==
    /\ pc = "rate_sleep"
    /\ BATCH_SIZE = 5
    /\ batch.t = "arr"
    /\ Len(batch.v) = 1
    /\ successful_batches = 1
    /\ failed_batches = 1
    /\ all_records = batch.v


InCall == pc \in {"gb_for", "gb_wait", "gb_done"}

\* C12: every rate-limit wait lasts 60 / RPM_LIMIT time units and is taken
\* right after an iteration's merge and counter update, with no request in
\* flight, before the loop goes on; a request is only sent when each earlier
\* iteration has had its wait; and when the loop has ended there have been
\* exactly as many rate-limit waits as iterations.
C12_RateLimitWaits ==
    /\ [](rate_sleeps + (IF pc = "rate_sleep" THEN 1 ELSE 0)
             = successful_batches + failed_batches)
    /\ [](LoopEnded => rate_sleeps = iters /\ rate_sleeps = total_iterations)
    /\ [][rate_sleeps' # rate_sleeps =>
             /\ rate_sleeps' = rate_sleeps + 1
             /\ pc = "rate_sleep" /\ pc' = "for_i"
             /\ successful_batches + failed_batches = iters
             /\ ~in_flight
             /\ last_wait'.kind = "rate"
             /\ last_wait'.d * RPM_LIMIT = 60]_vars
    /\ [][(in_flight' /\ ~in_flight) => rate_sleeps = iters - 1]_vars

C12_Witness ==
    /\ pc = "confirm"
    /\ rate_sleeps = 2
    /\ successful_batches = 1
    /\ failed_batches = 1
    /\ contributed[1].it = 1
    /\ last_wait = [kind |-> "rate", d |-> 12]


\* C13: at no moment have more than RPM_LIMIT generation requests, retries
\* included, been sent within the last 60 time units.
C13_RequestRate == Len(ages) <= RPM_LIMIT


\* C14 as stated: the run never stops on an interrupt while a generation
\* request has been sent and has neither been answered nor timed out.
C14_NoMidRequestStop_Original == pc = "interrupted" => ~in_flight

\* C14 as amended: an interrupt is honoured wherever the run is, also while a
\* generation request is in flight, and the interrupted run takes no further
\* step: the pending request is abandoned, nothing more is merged or written.
C14_InterruptStopsAtOnce ==
    /\ pc \notin Terminal => ENABLED Interrupt
    /\ pc = "interrupted" => ~ENABLED NextInterruptible

C14_Witness ==
    /\ pc = "interrupted"
    /\ in_flight
    /\ attempt = 1
    /\ successful_batches = 1
    /\ ~rm_written /\ ~sft_written


\* C15: without the API key in the environment the process only ever is at
\* its start or has exited: no request is sent or answered, no iteration
\* runs, no summary is printed and no output file is written.
C15_MissingCredential ==
    ~has_key =>
        /\ pc \in {"api_setup", "exited"}
        /\ ~in_flight /\ served = "none" /\ log = <<>>
        /\ iters = 0
        /\ summary = NoSummary
        /\ ~rm_written /\ ~sft_written

C15_Witness ==
    /\ ~has_key
    /\ pc = "exited"
    /\ NUM_RECORDS_TO_GENERATE >= BATCH_SIZE


\* C16: writing the RM file and deriving the SFT view leave the corpus as it
\* was, and deriving the two views again from the corpus as it then is gives
\* exactly the views already produced.
C16_ProjectionPure ==
    /\ [][(pc \in {"save_rm", "save_sft"}) => (all_records' = all_records)]_vars
    /\ [](rm_written => rm_file = all_records)
    /\ [](sft_written =>
            /\ \A k \in 1..Len(all_records) : Projectable(all_records[k])
            /\ sft_file = [k \in 1..Len(all_records) |->
                             [prompt |-> all_records[k].v.prompt,
                              response |-> all_records[k].v.chosen]])

C16_Witness ==
    /\ pc = "success"
    /\ sft_written
    /\ Len(contributed) = 1
    /\ Len(all_records) = 2
    /\ rm_file = all_records
    /\ Len(sft_file) = 2


\* C17: in every step the corpus before is a prefix of the corpus after, so
\* its length never decreases; and a step that counts an iteration as failed
\* adds exactly one to failed_batches and leaves the corpus and
\* successful_batches as they were.
C17_AppendOnly ==
    [][/\ Len(all_records) <= Len(all_records')
       /\ SubSeq(all_records', 1, Len(all_records)) = all_records
       /\ failed_batches' # failed_batches =>
             /\ failed_batches' = failed_batches + 1
             /\ all_records' = all_records
             /\ successful_batches' = successful_batches]_vars

C17_Witness ==
    /\ pc = "rate_sleep"
    /\ i = 1
    /\ failed_batches = 1
    /\ successful_batches = 1
    /\ contributed[1].it = 1
    /\ Len(all_records) = 5

RECURSIVE SumLen(_)
SumLen(bs) == IF bs = <<>> THEN 0 ELSE Len(Head(bs).recs) + SumLen(Tail(bs))

\* C18: successful_batches + failed_batches is the number of completed
\* iterations (the current one counts once it has been merged); every step
\* changes at most one of the two counters, by exactly one; the number of
\* records is the sum of the lengths of the batches counted as successful;
\* and the summary reports these figures.
C18_Counters ==
    /\ [](successful_batches + failed_batches = (IF InCall THEN iters - 1 ELSE iters))
    /\ [](pc \in {"for_i", "gb_for", "gb_wait", "gb_done"} =>
             successful_batches + failed_batches = i)
    /\ [](pc = "rate_sleep" => successful_batches + failed_batches = i + 1)
    /\ [](Len(contributed) = successful_batches /\ Len(all_records) = SumLen(contributed))
    /\ [](summary # NoSummary =>
             /\ summary.total_records = Len(all_records)
             /\ summary.successful = successful_batches
             /\ summary.failed = failed_batches
             /\ summary.successful + summary.failed = summary.iterations)
    /\ [][\/ successful_batches' = successful_batches /\ failed_batches' = failed_batches
          \/ successful_batches' = successful_batches + 1 /\ failed_batches' = failed_batches
          \/ successful_batches' = successful_batches /\ failed_batches' = failed_batches + 1]_vars

C18_Witness ==
    /\ pc = "aborted"
    /\ summary = [iterations |-> 2, successful |-> 1, failed |-> 1, total_records |-> 2]
    /\ Len(all_records) = 2
    /\ contributed[1].it = 2


\* C19: all client calls of one generate_batch call carry the focus category
\* the call was given; every retry wait lasts 5 time units; while the call
\* runs there has been one retry wait per failed attempt that another attempt
\* follows; and when it has returned, it has taken k waits if it succeeded
\* after k failures and max_retries - 1 waits if every attempt failed.
C19_RetryWaits ==
    /\ \A n \in 1..Len(log) : log[n].focus = prompt.focus_category
    /\ retry_sleeps > 0 => (last_wait.kind = "retry" /\ last_wait.d = 5)
    /\ retry_sleeps = 0 => last_wait.kind = "none"
    /\ pc \in {"gb_for", "gb_wait"} =>
          retry_sleeps = (IF attempt < max_retries THEN attempt ELSE max_retries - 1)
    /\ pc = "gb_done" =>
          retry_sleeps = (IF Successes(log) # {}
                          THEN Cardinality(Failures(log))
                          ELSE max_retries - 1)

C19_Witness ==
    /\ pc = "gb_done"
    /\ max_retries = 3
    /\ Len(log) = 3
    /\ Successes(log) = {}
    /\ retry_sleeps = 2
    /\ last_wait = [kind |-> "retry", d |-> 5]
    /\ prompt.focus_category = "Poor Logic"

====
